---------------------------- MODULE Spec2Model ----------------------------
(***************************************************************************)
(* rocket_static_fs: the package codec (fs/embedded/mod.rs), the two       *)
(* storage backends (fs/mod.rs, fs/embedded/mod.rs), the Range header      *)
(* parser and the serving pipeline (lib.rs), and the limiting reader       *)
(* (io/mod.rs).                                                            *)
(*                                                                         *)
(* Strings are sequences of byte values, as Rust's String is its UTF-8     *)
(* bytes; all strings of the model are ASCII.  Instants are counted in     *)
(* ticks, TicksPerSec ticks to the second, so that a modification time can *)
(* carry a sub-second part.                                                *)
(***************************************************************************)
EXTENDS Integers, Sequences, FiniteSets, TLC

VARIABLES
    backend,      \* which FileSystem the fairing was built with
    disk,         \* the files of the host: location -> [content, modified, readable]
    package,      \* result of EmbeddedFileSystem::from_bytes at start-up (or NoPackage)
    request,      \* the request last handed to on_response
    response,     \* the response as on_response left it
    outcome,      \* "idle", "returned" or "panicked"
    buf,          \* codec: the buffer handed to Package::from_bytes, and its origin
    decoded,      \* codec: what Package::from_bytes produced for buf
    opened,       \* codec: the path and result of the last Package::open
    lr            \* limiting reader: the LimitReader, the caller's buffer after the
                  \* last read, what the reads returned and delivered so far

vars == <<backend, disk, package, request, response, outcome,
          buf, decoded, opened, lr>>

-----------------------------------------------------------------------------
(* Bounds of the model *)

\* ticks per second of the model's clock (chrono keeps nanoseconds)
TicksPerSec == 2
\* largest value of a Range bound the enumerated headers carry
MaxRangeBound == 2
\* largest length and start offset of a record of a generated buffer, and
\* the length of its longest data region
MaxData == 2
\* most paths in the list handed to write_package
MaxFiles == 3
\* longest inner stream handed to LimitReader::new
MaxInner == 7
\* largest limit handed to LimitReader::new
MaxLimit == 6
\* longest buffer handed to LimitReader::read
MaxBuf == 4
\* most read calls made on one LimitReader
MaxReads == 3

-----------------------------------------------------------------------------
(* Sequences and strings *)

Min(a, b) == IF a < b THEN a ELSE b

Take(s, n) == SubSeq(s, 1, Min(n, Len(s)))

Drop(s, n) == SubSeq(s, Min(n, Len(s)) + 1, Len(s))

StartsWith(s, p) == Len(s) >= Len(p) /\ SubSeq(s, 1, Len(p)) = p

Contains(s, c) == \E i \in 1..Len(s) : s[i] = c

\* s contains the string w
ContainsStr(s, w) == \E i \in 0..(Len(s) - Len(w)) : SubSeq(s, i + 1, i + Len(w)) = w

\* the ASCII codes of the characters the model's strings are made of
Ascii ==
    (" " :> 32) @@ ("," :> 44) @@ ("-" :> 45) @@ ("." :> 46) @@ ("/" :> 47) @@
    ("0" :> 48) @@ ("1" :> 49) @@ ("2" :> 50) @@ ("3" :> 51) @@ ("4" :> 52) @@
    ("5" :> 53) @@ ("6" :> 54) @@ ("7" :> 55) @@ ("8" :> 56) @@ ("9" :> 57) @@
    ("=" :> 61) @@ ("a" :> 97) @@ ("b" :> 98) @@ ("c" :> 99) @@ ("d" :> 100) @@ ("e" :> 101) @@
    ("g" :> 103) @@ ("h" :> 104) @@ ("i" :> 105) @@ ("n" :> 110) @@ ("o" :> 111) @@ ("p" :> 112) @@
    ("r" :> 114) @@ ("s" :> 115) @@ ("t" :> 116) @@ ("w" :> 119) @@ ("x" :> 120) @@
    ("y" :> 121) @@ ("z" :> 122)

\* a string literal, written as the sequence of its characters
RECURSIVE Str(_)
Str(cs) == IF Len(cs) = 0 THEN <<>> ELSE <<Ascii[Head(cs)]>> \o Str(Tail(cs))

IsDigit(b) == b >= Ascii["0"] /\ b <= Ascii["9"]

\* format!("{}", n) of an unsigned integer
RECURSIVE Dec(_)
Dec(n) == IF n < 10 THEN <<Ascii["0"] + n>> ELSE Dec(n \div 10) \o <<Ascii["0"] + (n % 10)>>

\* str::parse::<u64> of a non-empty string of digits (the model's headers carry
\* at most a few digits, so the value always fits)
RECURSIVE ParseU64(_)
ParseU64(ds) ==
    IF Len(ds) = 0 THEN 0
    ELSE 10 * ParseU64(SubSeq(ds, 1, Len(ds) - 1)) + (ds[Len(ds)] - Ascii["0"])

\* Option and Result values: None/Some as sequences of length 0/1
None == <<>>

Some(v) == <<v>>

Ok(v) == [ok |-> TRUE, val |-> v]

Err == [ok |-> FALSE]

-----------------------------------------------------------------------------
(* std::path: paths are strings; components are compared, never resolved *)

Slash == Ascii["/"]

IsAbsolute(p) == Len(p) > 0 /\ p[1] = Slash

\* the pieces of p between slashes
RECURSIVE SplitSlash(_, _)
SplitSlash(p, cur) ==
    IF Len(p) = 0 THEN <<cur>>
    ELSE IF Head(p) = Slash THEN <<cur>> \o SplitSlash(Tail(p), <<>>)
    ELSE SplitSlash(Tail(p), Append(cur, Head(p)))

RECURSIVE DropTrivial(_)
DropTrivial(segs) ==
    IF Len(segs) = 0 THEN <<>>
    ELSE IF Head(segs) = <<>> \/ Head(segs) = Str(<<".">>) THEN DropTrivial(Tail(segs))
    ELSE <<Head(segs)>> \o DropTrivial(Tail(segs))

\* Path::components: empty pieces and "." are skipped, ".." is kept as it is
Components(p) == DropTrivial(SplitSlash(p, <<>>))

ParentDir == Str(<<".", ".">>)

\* PathBuf::join: an absolute argument replaces the base
PathJoin(base, p) ==
    IF IsAbsolute(p) THEN p
    ELSE IF Len(base) = 0 \/ base[Len(base)] = Slash THEN base \o p
    ELSE base \o <<Slash>> \o p

\* Path::starts_with: whole components of base are a prefix of those of p
PathStartsWith(p, base) ==
    /\ IsAbsolute(p) = IsAbsolute(base)
    /\ StartsWith(Components(p), Components(base))

\* index of the last "." of name, 0 if there is none
LastDot(name) ==
    LET dots == {i \in 1..Len(name) : name[i] = Ascii["."]}
    IN  IF dots = {} THEN 0 ELSE CHOOSE i \in dots : \A j \in dots : j <= i

\* Path::extension: None without a file name, without a dot, or when the only
\* dot begins the name
Extension(p) ==
    LET comps == Components(p)
    IN  IF Len(comps) = 0 \/ comps[Len(comps)] = ParentDir THEN None
        ELSE LET name == comps[Len(comps)]
                 k == LastDot(name)
             IN  IF k <= 1 THEN None ELSE Some(SubSeq(name, k + 1, Len(name)))

-----------------------------------------------------------------------------
(* The host's file system: what the operating system does with a path *)

\* the working directory of the server process, as a location from "/"
Cwd == <<Str(<<"w">>)>>

\* the directory handed to LocalFileSystem::new, relative to Cwd
RootDir == Str(<<"s", "r", "c">>)

FileA == Str(<<"a", ".", "t">>)

FileNoExt == Str(<<"n">>)

FileInDir == Str(<<"d", "/", "b", ".", "t">>)

FileOutside == Str(<<"x", ".", "t">>)

\* the modification times (ticks) FileA may have: whole and fractional
\* seconds, before and after the epoch
MTimes == {0 - (TicksPerSec + 1), 0, 2 * TicksPerSec + 1}

ContentA == <<20, 21, 22, 23, 24, 25, 26, 27, 28, 29, 30, 31>>

\* the files of the host, with FileA modified at m and readable iff r
DiskOf(m, r) ==
    (Cwd \o <<RootDir, FileA>> :> [content |-> ContentA, modified |-> m, readable |-> r]) @@
    (Cwd \o <<RootDir, FileNoExt>> :>
        [content |-> <<40, 41>>, modified |-> 1, readable |-> TRUE]) @@
    (Cwd \o <<RootDir, Str(<<"d">>), Str(<<"b", ".", "t">>)>> :>
        [content |-> <<50, 51, 52>>, modified |-> 2 * TicksPerSec, readable |-> TRUE]) @@
    (Cwd \o <<FileOutside>> :>
        [content |-> <<66, 67, 68, 69>>, modified |-> 3 * TicksPerSec, readable |-> TRUE])

Disks == {DiskOf(m, TRUE) : m \in MTimes} \cup {DiskOf(0, FALSE)}

\* the directories of d: every proper prefix of a file's location
Dirs(d) == UNION {{SubSeq(l, 1, k) : k \in 0..(Len(l) - 1)} : l \in DOMAIN d}

\* path resolution by the operating system from location loc: every step
\* needs a directory to step from, ".." steps up, a name steps down to an
\* existing entry
RECURSIVE Walk(_, _, _)
Walk(d, loc, comps) ==
    IF Len(comps) = 0 THEN Some(loc)
    ELSE IF loc \notin Dirs(d) THEN None
    ELSE IF Head(comps) = ParentDir
         THEN Walk(d, SubSeq(loc, 1, Len(loc) - 1), Tail(comps))
    ELSE IF Append(loc, Head(comps)) \in (DOMAIN d \cup Dirs(d))
         THEN Walk(d, Append(loc, Head(comps)), Tail(comps))
    ELSE None

Resolve(d, p) == Walk(d, IF IsAbsolute(p) THEN <<>> ELSE Cwd, Components(p))

\* Path::is_file
IsFile(d, p) == Resolve(d, p) # None /\ Resolve(d, p)[1] \in DOMAIN d

\* the file a path names; only used where IsFile(d, p)
FileAt(d, p) == d[Resolve(d, p)[1]]

-----------------------------------------------------------------------------
(* LocalFileSystem (fs/mod.rs) *)

Local_is_file(d, path) == IsFile(d, PathJoin(RootDir, path))

Local_last_modified(d, path) ==
    IF IsFile(d, PathJoin(RootDir, path))
    THEN Ok(FileAt(d, PathJoin(RootDir, path)).modified) ELSE Err

Local_size(d, path) ==
    IF IsFile(d, PathJoin(RootDir, path))
    THEN Ok(Len(FileAt(d, PathJoin(RootDir, path)).content)) ELSE Err

\* File::open, then seek to start: the stream is what is left to read
Local_open(d, path, start) ==
    IF IsFile(d, PathJoin(RootDir, path)) /\ FileAt(d, PathJoin(RootDir, path)).readable
    THEN Ok(Drop(FileAt(d, PathJoin(RootDir, path)).content, start)) ELSE Err

Local_path_valid(path) == PathStartsWith(PathJoin(RootDir, path), RootDir)

-----------------------------------------------------------------------------
(* byteorder: 8-byte big-endian integers *)

\* byte k (0 = least significant) of n in two's complement
RECURSIVE ByteOf(_, _)
ByteOf(n, k) == IF k = 0 THEN n % 256 ELSE ByteOf(n \div 256, k - 1)

\* write_u64::<BigEndian> and write_i64::<BigEndian>
BE8(n) == <<ByteOf(n, 7), ByteOf(n, 6), ByteOf(n, 5), ByteOf(n, 4),
            ByteOf(n, 3), ByteOf(n, 2), ByteOf(n, 1), ByteOf(n, 0)>>

RECURSIVE Unsigned(_)
Unsigned(bs) == IF Len(bs) = 0 THEN 0
                ELSE 256 * Unsigned(SubSeq(bs, 1, Len(bs) - 1)) + bs[Len(bs)]

\* read_u64::<BigEndian> at offset pos of bytes: fails at the end of the buffer
ReadU64(bytes, pos) ==
    IF pos + 8 > Len(bytes) THEN Err ELSE Ok(Unsigned(SubSeq(bytes, pos + 1, pos + 8)))

\* read_i64::<BigEndian>: the same bytes read in two's complement
ReadI64(bytes, pos) ==
    IF pos + 8 > Len(bytes) THEN Err
    ELSE LET bs == SubSeq(bytes, pos + 1, pos + 8)
         IN  IF bs[1] >= 128
             THEN Ok(0 - (1 + Unsigned(<<255 - bs[1], 255 - bs[2], 255 - bs[3], 255 - bs[4],
                                          255 - bs[5], 255 - bs[6], 255 - bs[7], 255 - bs[8]>>)))
             ELSE Ok(Unsigned(bs))

-----------------------------------------------------------------------------
(* write_package and create_package_from_dir (fs/embedded/mod.rs) *)

\* Ord for str: byte-wise lexicographic
RECURSIVE StrLess(_, _)
StrLess(a, b) ==
    IF Len(b) = 0 THEN FALSE
    ELSE IF Len(a) = 0 THEN TRUE
    ELSE IF Head(a) # Head(b) THEN Head(a) < Head(b)
    ELSE StrLess(Tail(a), Tail(b))

RECURSIVE InsertSorted(_, _)
InsertSorted(x, s) ==
    IF Len(s) = 0 THEN <<x>>
    ELSE IF StrLess(x, Head(s)) THEN <<x>> \o s
    ELSE <<Head(s)>> \o InsertSorted(x, Tail(s))

\* Vec::sort
RECURSIVE Sort(_)
Sort(s) == IF Len(s) = 0 THEN <<>> ELSE InsertSorted(Head(s), Sort(Tail(s)))

\* DateTime::timestamp of an instant: whole seconds, rounded down
Timestamp(ticks) == ticks \div TicksPerSec

\* the metadata record of file f: path_len, path, last_modified, len, start
MetaRecord(f, modified, size, data_offset) ==
    BE8(Len(f)) \o f \o BE8(Timestamp(modified)) \o BE8(size) \o BE8(data_offset)

RECURSIVE MetaRecords(_, _, _, _)
MetaRecords(d, root, files, data_offset) ==
    IF Len(files) = 0 THEN <<>>
    ELSE LET file == FileAt(d, PathJoin(root, Head(files)))
         IN  MetaRecord(Head(files), file.modified, Len(file.content), data_offset)
             \o MetaRecords(d, root, Tail(files), data_offset + Len(file.content))

RECURSIVE FileBytes(_, _, _)
FileBytes(d, root, files) ==
    IF Len(files) = 0 THEN <<>>
    ELSE FileAt(d, PathJoin(root, Head(files))).content \o FileBytes(d, root, Tail(files))

RECURSIVE MetaLen(_)
MetaLen(files) == IF Len(files) = 0 THEN 0 ELSE 32 + Len(Head(files)) + MetaLen(Tail(files))

\* what write_package leaves in the writer; Err when a file's metadata cannot
\* be read or a file cannot be opened
write_package(d, root, input_files) ==
    LET files == Sort(input_files)
    IN  IF \E i \in 1..Len(files) :
               \/ ~IsFile(d, PathJoin(root, files[i]))
               \/ ~FileAt(d, PathJoin(root, files[i])).readable
        THEN Err
        ELSE Ok(BE8(MetaLen(files)) \o MetaRecords(d, root, files, 0)
                \o FileBytes(d, root, files))

RECURSIVE JoinSlash(_)
JoinSlash(segs) ==
    IF Len(segs) = 0 THEN <<>>
    ELSE IF Len(segs) = 1 THEN segs[1]
    ELSE segs[1] \o <<Slash>> \o JoinSlash(Tail(segs))

\* Path::canonicalize: the absolute path of a location
AbsolutePath(loc) == <<Slash>> \o JoinSlash(loc)

RECURSIVE SetToSeq(_)
SetToSeq(S) == IF S = {} THEN <<>>
               ELSE LET x == CHOOSE x \in S : TRUE IN <<x>> \o SetToSeq(S \ {x})

\* create_package_from_dir: every file below dir, named relative to dir
create_package_from_dir(d, dir) ==
    IF Resolve(d, dir) = None \/ Resolve(d, dir)[1] \notin Dirs(d) THEN Err
    ELSE LET root == Resolve(d, dir)[1]
             below == {l \in DOMAIN d : StartsWith(l, root)}
             files == SetToSeq({JoinSlash(SubSeq(l, Len(root) + 1, Len(l))) : l \in below})
         IN  write_package(d, AbsolutePath(root), files)

-----------------------------------------------------------------------------
(* Package (fs/embedded/mod.rs) *)

NoFiles == [p \in {} |-> 0]

\* read_to_string accepts only UTF-8; of the bytes the model's buffers hold,
\* those below 128
ValidUtf8(bs) == \A i \in 1..Len(bs) : bs[i] < 128

\* the data region taken to start eight bytes late
DataRegion_skip16(bytes, meta_len) == Drop(bytes, meta_len + 16)

\* &bytes[(meta_len + 8) as usize..]: what follows the header and the metadata
DataRegion(bytes, meta_len) == Drop(bytes, meta_len + 8)

\* the while loop of Package::from_bytes: cursor at pos, read bytes of
\* metadata consumed so far
RECURSIVE FromBytesLoop(_, _, _, _, _)
FromBytesLoop(bytes, meta_len, pos, read, files) ==
    IF ~(read < meta_len)
    THEN IF meta_len + 8 > Len(bytes)
         THEN [kind |-> "panic", files |-> NoFiles, data |-> <<>>]
         ELSE [kind |-> "ok", files |-> files, data |-> DataRegion(bytes, meta_len)]
    ELSE LET failed == [kind |-> "err", files |-> NoFiles, data |-> <<>>]
             path_len == ReadU64(bytes, pos)
         IN  IF ~path_len.ok THEN failed
             ELSE LET path == Take(Drop(bytes, pos + 8), path_len.val)
                      p1 == pos + 8 + path_len.val
                      last_modified == ReadI64(bytes, p1)
                      len == ReadU64(bytes, p1 + 8)
                      start == ReadU64(bytes, p1 + 16)
                  IN  IF ~ValidUtf8(path) \/ ~last_modified.ok \/ ~len.ok \/ ~start.ok
                      THEN failed
                      ELSE FromBytesLoop(bytes, meta_len, p1 + 24, read + (p1 + 24 - pos),
                               (path :> [last_modified |-> last_modified.val * TicksPerSec,
                                         len |-> len.val, start |-> start.val]) @@ files)

Package_from_bytes(bytes) ==
    IF ~ReadU64(bytes, 0).ok THEN [kind |-> "err", files |-> NoFiles, data |-> <<>>]
    ELSE FromBytesLoop(bytes, ReadU64(bytes, 0).val, 8, 0, NoFiles)

\* Package::open: a cursor over data[start .. start + len]; the slice panics
\* when it reaches past the data
Package_open(pkg, path) ==
    IF path \notin DOMAIN pkg.files THEN [kind |-> "err", slice |-> <<>>]
    ELSE LET file == pkg.files[path]
         IN  IF file.start + file.len > Len(pkg.data)
             THEN [kind |-> "panic", slice |-> <<>>]
             ELSE [kind |-> "ok",
                   slice |-> SubSeq(pkg.data, file.start + 1, file.start + file.len)]

-----------------------------------------------------------------------------
(* EmbeddedFileSystem (fs/embedded/mod.rs) *)

Embedded_is_file(pkg, path) == path \in DOMAIN pkg.files

Embedded_last_modified(pkg, path) ==
    IF path \in DOMAIN pkg.files THEN Ok(pkg.files[path].last_modified) ELSE Err

Embedded_size(pkg, path) ==
    IF path \in DOMAIN pkg.files THEN Ok(pkg.files[path].len) ELSE Err

\* open without the seek to start
Embedded_open_noseek(pkg, path, start) ==
    [kind |-> Package_open(pkg, path).kind, stream |-> Package_open(pkg, path).slice]

\* Package::open, then seek the cursor to start
Embedded_open(pkg, path, start) ==
    LET reader == Package_open(pkg, path)
    IN  [kind |-> reader.kind, stream |-> Drop(reader.slice, start)]

Embedded_path_valid(pkg, path) == path \in DOMAIN pkg.files

-----------------------------------------------------------------------------
(* Range (lib.rs) *)

\* the longest run of digits of s that begins at index i
RECURSIVE DigitRun(_, _)
DigitRun(s, i) ==
    IF i > Len(s) \/ ~IsDigit(s[i]) THEN <<>> ELSE <<s[i]>> \o DigitRun(s, i + 1)

\* RANGE_HEADER_REGEX, (.*?)=(\d+)-(\d+), matches with its "=" at index e:
\* digits, a hyphen and digits follow it
MatchesAt(s, e) ==
    LET d1 == DigitRun(s, e + 1)
        h == e + Len(d1) + 1
    IN  /\ s[e] = Ascii["="]
        /\ Len(d1) > 0
        /\ h <= Len(s) /\ s[h] = Ascii["-"]
        /\ Len(DigitRun(s, h + 1)) > 0

\* Range::from_str: the regular expression is searched for, not anchored, and
\* its lazy first group stops at the first "=" that begins a match
RangeFromStr(s) ==
    LET es == {e \in 1..Len(s) : MatchesAt(s, e)}
    IN  IF es = {} THEN Err
        ELSE LET e == CHOOSE x \in es : \A y \in es : x <= y
                 d1 == DigitRun(s, e + 1)
                 d2 == DigitRun(s, e + Len(d1) + 2)
             IN  Ok([typ |-> SubSeq(s, 1, e - 1), start |-> ParseU64(d1), end |-> ParseU64(d2)])

\* Range::len in u64 arithmetic: the value is end - start + 1 modulo 2^64, and
\* a result below zero stands for that number plus 2^64
RangeLen(range) == range.end - range.start + 1

\* end - start underflows u64: a panic where overflow checks are compiled in
RangeLenOverflows(range) == range.end < range.start

\* Read::take(n): at most n bytes of the stream, n a u64 as RangeLen gives it
TakeU64(stream, n) == IF n < 0 THEN stream ELSE Take(stream, n)

-----------------------------------------------------------------------------
(* StaticFileServer (lib.rs) *)

\* StaticFileServer::new: the prefix always ends with "/"
StaticFileServer_new(prefix) ==
    IF Len(prefix) > 0 /\ prefix[Len(prefix)] = Slash THEN prefix ELSE prefix \o <<Slash>>

Prefix == StaticFileServer_new(Str(<<"/", "t", "e", "s", "t">>))

\* str::replacen(w, "", 1): s without the first occurrence of w
ReplaceFirst(s, w) ==
    LET at == {i \in 0..(Len(s) - Len(w)) : SubSeq(s, i + 1, i + Len(w)) = w}
    IN  IF at = {} THEN s
        ELSE LET i == CHOOSE x \in at : \A y \in at : x <= y
             IN  SubSeq(s, 1, i) \o SubSeq(s, i + Len(w) + 1, Len(s))

\* mime_guess::get_mime_type: the lookup of an extension
get_mime_type(ext) == [mime_of |-> ext]

\* DateTime::format(LAST_MODIFIED_DATE_FORMAT): the date names a whole second
FormatHttpDate(ticks) == [date |-> TRUE, secs |-> Timestamp(ticks)]

\* Utc.datetime_from_str(.., LAST_MODIFIED_DATE_FORMAT): the instant at the
\* start of the second the text names, or an error
ParseHttpDate(text) == IF text.date THEN Ok(text.secs * TicksPerSec) ELSE Err

\* num_seconds rounding down instead of towards zero
NumSeconds_floor(duration) == duration \div TicksPerSec

\* Duration::num_seconds: whole seconds, rounded towards zero
NumSeconds(duration) ==
    IF duration >= 0 THEN duration \div TicksPerSec
    ELSE 0 - ((0 - duration) \div TicksPerSec)

\* the FileSystem the fairing holds
fs_path_valid(path) ==
    IF backend = "local" THEN Local_path_valid(path) ELSE Embedded_path_valid(package, path)

fs_is_file(path) ==
    IF backend = "local" THEN Local_is_file(disk, path) ELSE Embedded_is_file(package, path)

fs_last_modified(path) ==
    IF backend = "local" THEN Local_last_modified(disk, path)
    ELSE Embedded_last_modified(package, path)

fs_size(path) ==
    IF backend = "local" THEN Local_size(disk, path) ELSE Embedded_size(package, path)

fs_open(path, start) ==
    IF backend = "local"
    THEN LET f == Local_open(disk, path, start)
         IN  IF f.ok THEN [kind |-> "ok", stream |-> f.val]
             ELSE [kind |-> "err", stream |-> <<>>]
    ELSE Embedded_open(package, path, start)

\* the response the host hands to the fairing: its status, and nothing set by
\* the fairing yet
HostResponse(status) ==
    [status |-> status, content_type |-> None, accept_ranges |-> None,
     content_length |-> None, content_range |-> None, last_modified |-> None,
     content_encoding |-> None, body |-> None]

Returned(resp) == [response |-> resp, outcome |-> "returned"]

Panicked(resp) == [response |-> resp, outcome |-> "panicked"]

Bytes == Str(<<"b", "y", "t", "e", "s">>)

Gzip == Str(<<"g", "z", "i", "p">>)

\* the Content-Range value on_response formats for a range
ContentRange(range, size) ==
    range.typ \o <<Ascii["="]>> \o Dec(range.start) \o <<Ascii["-"]>> \o Dec(range.end)
        \o <<Slash>> \o Dec(size)

\* the If-Modified-Since test of on_response
IsNotModified(req, modified) ==
    /\ req.method = "GET"
    /\ req.if_modified_since # None
    /\ ParseHttpDate(req.if_modified_since[1]).ok
    /\ NumSeconds(ParseHttpDate(req.if_modified_since[1]).val - modified) = 0

\* on_response once the file is open: the headers and the body
SendFile(req, resp, checks, range, size, modified, f) ==
    LET r2 == [resp EXCEPT !.accept_ranges = Some(Bytes), !.status = "Ok",
                           !.last_modified = Some(FormatHttpDate(modified))]
    IN  IF range.ok /\ checks /\ RangeLenOverflows(range.val) THEN Panicked(r2)
        ELSE LET limited == IF range.ok THEN TakeU64(f, RangeLen(range.val)) ELSE f
                 r3 == IF range.ok
                       THEN [r2 EXCEPT !.content_length = Some(RangeLen(range.val)),
                                       !.content_range = Some(ContentRange(range.val, size)),
                                       !.status = "PartialContent"]
                       ELSE r2
             IN  IF req.accept_encoding # None /\ ContainsStr(req.accept_encoding[1], Gzip)
                 THEN Returned([r3 EXCEPT !.content_encoding = Some(Gzip),
                                          !.body = Some([bytes |-> limited, gzip |-> TRUE])])
                 ELSE Returned([r3 EXCEPT !.body = Some([bytes |-> limited, gzip |-> FALSE])])

\* the range parsed without the test for a comma
ParseRangeHeader_multi(range_header) == RangeFromStr(range_header)

\* the Range header as on_response reads it: a multipart range is an error
ParseRangeHeader(range_header) ==
    IF Contains(range_header, Ascii[","]) THEN Err ELSE RangeFromStr(range_header)

\* on_response from the size of the file on
ServeFile(req, req_path, resp, checks, modified) ==
    LET size == fs_size(req_path)
    IN  IF ~size.ok THEN Returned([resp EXCEPT !.status = "Forbidden"])
        ELSE IF req.method = "HEAD"
        THEN Returned([resp EXCEPT !.accept_ranges = Some(Bytes),
                                   !.content_length = Some(size.val), !.status = "Ok"])
        ELSE LET range_header == IF req.range = None THEN <<>> ELSE req.range[1]
                 range == ParseRangeHeader(range_header)
                 start == IF range.ok THEN range.val.start ELSE 0
                 f == fs_open(req_path, start)
             IN  IF f.kind = "panic" THEN Panicked(resp)
                 ELSE IF f.kind = "err" THEN Returned([resp EXCEPT !.status = "Forbidden"])
                 ELSE SendFile(req, resp, checks, range, size.val, modified, f.stream)

\* StaticFileServer::on_response for request req; checks: the build panics on
\* arithmetic overflow
on_response(req, checks) ==
    LET r0 == HostResponse(req.host_status)
    IN  IF r0.status # "NotFound" THEN Returned(r0)
        ELSE IF ~((req.method = "GET" \/ req.method = "HEAD") /\ StartsWith(req.uri, Prefix))
        THEN Returned(r0)
        ELSE LET req_path == ReplaceFirst(req.uri, Prefix)
             IN  IF ~fs_path_valid(req_path)
                 THEN Returned([r0 EXCEPT !.status = "Forbidden"])
                 ELSE IF ~fs_is_file(req_path)
                 THEN Returned([r0 EXCEPT !.status = "NotFound"])
                 ELSE IF Extension(req_path) = None THEN Panicked(r0)
                 ELSE LET r1 == [r0 EXCEPT !.content_type =
                                     Some(get_mime_type(Extension(req_path)[1]))]
                          modified == fs_last_modified(req_path)
                      IN  IF ~modified.ok THEN Panicked(r1)
                          ELSE IF IsNotModified(req, modified.val)
                          THEN Returned([r1 EXCEPT !.status = "NotModified"])
                          ELSE ServeFile(req, req_path, r1, checks, modified.val)

-----------------------------------------------------------------------------
(* The requests the model sends *)

Methods == {"GET", "HEAD", "POST"}

\* request paths below the prefix: files of the root, a missing file, a
\* directory, paths through "..", an absolute path
ReqPaths ==
    {FileA, FileNoExt, FileInDir,
     Str(<<"z", ".", "t">>),
     Str(<<"d">>),
     Str(<<"d", "/", ".", ".", "/", "a", ".", "t">>),
     Str(<<".", ".", "/", "x", ".", "t">>),
     Str(<<".", ".", "/", "y", ".", "t">>),
     Str(<<"/", "w", "/", "x", ".", "t">>)}

Uris == {Prefix \o p : p \in ReqPaths} \cup {Str(<<"/", "o", "/">>) \o FileA}

\* "<unit>=<start>-<end>"
RangeHeader(unit, start, end) ==
    unit \o <<Ascii["="]>> \o Dec(start) \o <<Ascii["-"]>> \o Dec(end)

RangeHeaders ==
    {None, Some(<<>>)}
    \cup {Some(RangeHeader(Bytes, a, b)) : a \in 0..MaxRangeBound, b \in 0..MaxRangeBound}
    \cup {Some(RangeHeader(Bytes, 5, 10)), Some(RangeHeader(Bytes, 10, 15)),
          Some(RangeHeader(Bytes, 0, 1) \o Str(<<",", "2", "-", "3">>)),
          Some(Bytes \o Str(<<"=", "1", "-">>)),
          Some(Str(<<"-", "1">>)),
          Some(Str(<<"x", "=", "y", " ">>) \o RangeHeader(Bytes, 1, 2) \o Str(<<" ", "z">>))}

AcceptEncodings ==
    {None, Some(Str(<<"b", "r">>)), Some(Str(<<"b", "r", ",", " ">>) \o Gzip)}

\* the seconds an If-Modified-Since date may name: around every time of MTimes
DateSeconds == (0 - 3)..3

IfModifiedSinces ==
    {None, Some([date |-> FALSE, secs |-> 0])}
    \cup {Some([date |-> TRUE, secs |-> sec]) : sec \in DateSeconds}

Requests ==
    [method : Methods, uri : Uris, host_status : {"NotFound", "Ok"},
     if_modified_since : IfModifiedSinces, range : RangeHeaders,
     accept_encoding : AcceptEncodings]

NoRequest ==
    [method |-> "none", uri |-> <<>>, host_status |-> "none", if_modified_since |-> None,
     range |-> None, accept_encoding |-> None]

-----------------------------------------------------------------------------
(* The server: one fairing over one FileSystem, handling requests *)

NoPackage == [kind |-> "none", files |-> NoFiles, data |-> <<>>]

NoBuffer == [kind |-> "none", bytes |-> <<>>, files |-> <<>>]

NotOpened == [kind |-> "none", path |-> <<>>, slice |-> <<>>]

\* no LimitReader constructed
NoReader ==
    [kind |-> "none",
     reader |-> [read |-> 0, limit |-> 0,
                 inner |-> [bytes |-> <<>>, pos |-> 0, touched |-> FALSE]],
     buf |-> <<>>, returns |-> <<>>, delivered |-> <<>>, full_before |-> FALSE]

\* include_bytes! of the package create_package_from_dir wrote for the root
EmbeddedPackage(d) == Package_from_bytes(create_package_from_dir(d, RootDir).val)

Init ==
    /\ backend \in {"local", "embedded"}
    /\ disk \in Disks
    /\ backend = "embedded" => create_package_from_dir(disk, RootDir).ok
    /\ package = IF backend = "embedded" THEN EmbeddedPackage(disk) ELSE NoPackage
    /\ request = NoRequest
    /\ response = HostResponse("none")
    /\ outcome = "idle"
    /\ buf = NoBuffer
    /\ decoded = NoPackage
    /\ opened = NotOpened
    /\ lr = NoReader

\* the host hands a request it did or did not answer to the fairing
OnResponse ==
    /\ outcome = "idle"
    /\ \E req \in Requests, checks \in BOOLEAN :
        LET r == on_response(req, checks)
        IN  /\ request' = req
            /\ response' = r.response
            /\ outcome' = r.outcome
            /\ UNCHANGED <<backend, disk, package, buf, decoded, opened, lr>>

\* the host sends the response (or drops the connection of a handler that
\* panicked) and is ready for the next request
Finish ==
    /\ outcome # "idle"
    /\ request' = NoRequest
    /\ response' = HostResponse("none")
    /\ outcome' = "idle"
    /\ UNCHANGED <<backend, disk, package, buf, decoded, opened, lr>>

Next == OnResponse \/ Finish

Spec == Init /\ [][Next]_vars

-----------------------------------------------------------------------------
(* What the claims speak of *)

Handled == outcome # "idle"

\* a GET or HEAD request under the serving prefix that the host left unanswered
InPipeline ==
    /\ Handled
    /\ request.host_status = "NotFound"
    /\ request.method \in {"GET", "HEAD"}
    /\ StartsWith(request.uri, Prefix)

\* the request path relative to the prefix
ReqPath == SubSeq(request.uri, Len(Prefix) + 1, Len(request.uri))

\* where a relative path leads from the root when ".." is taken to mean the
\* parent directory
RECURSIVE Normalize(_, _)
Normalize(loc, comps) ==
    IF Len(comps) = 0 THEN loc
    ELSE IF Head(comps) = ParentDir
         THEN Normalize(SubSeq(loc, 1, Len(loc) - 1), Tail(comps))
    ELSE Normalize(Append(loc, Head(comps)), Tail(comps))

RootLocation == Cwd \o <<RootDir>>

\* the relative path has ".." segments and leads out of the configured root
EscapesRoot(path) ==
    /\ ~IsAbsolute(path)
    /\ \E i \in 1..Len(Components(path)) : Components(path)[i] = ParentDir
    /\ ~StartsWith(Normalize(RootLocation, Components(path)), RootLocation)

\* the request names a resource of the backend
IsResource == InPipeline /\ fs_path_valid(ReqPath) /\ fs_is_file(ReqPath)

\* the file on the host that the resource is, and its bytes
ResourceFile == FileAt(disk, PathJoin(RootDir, ReqPath))

\* the request reached the point where the file is opened, and it opened:
\* a GET for a readable resource that has an extension, not answered
\* Not Modified
ReachedOpen ==
    /\ IsResource
    /\ request.method = "GET"
    /\ Extension(ReqPath) # None
    /\ ResourceFile.readable
    /\ response.status # "NotModified"

AcceptsGzip ==
    request.accept_encoding # None /\ ContainsStr(request.accept_encoding[1], Gzip)

\* the Range header the request carries, "" when it carries none
RangeText == IF request.range = None THEN <<>> ELSE request.range[1]

\* the request carries one valid range
HasSingleRange == ~Contains(RangeText, Ascii[","]) /\ RangeFromStr(RangeText).ok

ParsedRange == RangeFromStr(RangeText).val

-----------------------------------------------------------------------------
(* C1 .. C7, C10: the serving pipeline *)

\* C1: with the directory-backed backend, a GET or HEAD under the prefix whose
\* relative path has "../" segments that lead outside the root ends with
\* Forbidden, and no body is served for it.
C1_TraversalForbidden ==
    (InPipeline /\ backend = "local" /\ EscapesRoot(ReqPath))
        => (outcome = "returned" /\ response.status = "Forbidden" /\ response.body = None)

\* C2: with the archive-backed backend, a GET or HEAD under the prefix whose
\* relative path is no key of the package index ends with NotFound.
C2_MissingIsNotFound ==
    (InPipeline /\ backend = "embedded" /\ ReqPath \notin DOMAIN package.files)
        => (outcome = "returned" /\ response.status = "NotFound")

\* C3: a GET for a resource the server emits Last-Modified for, sent again with
\* that value as If-Modified-Since, ends with Not Modified and no body; sent
\* with the value one second earlier (and no Range) it ends with OK and the
\* whole body - whatever sub-second part the modification time has.
C3_ConditionalGet ==
    (IsResource /\ request.method = "GET" /\ Extension(ReqPath) # None
                /\ ResourceFile.readable /\ request.if_modified_since # None)
        => LET emitted == FormatHttpDate(fs_last_modified(ReqPath).val)
               since == request.if_modified_since[1]
           IN  /\ since = emitted
                    => /\ outcome = "returned"
                       /\ response.status = "NotModified"
                       /\ response.body = None
               /\ (since = [emitted EXCEPT !.secs = @ - 1] /\ request.range = None)
                    => /\ outcome = "returned"
                       /\ response.status = "Ok"
                       /\ response.body # None
                       /\ response.body[1].bytes = ResourceFile.content

\* C3 witness: the modification time has a sub-second part, the request
\* carries the emitted Last-Modified, and the answer is Not Modified
C3_Witness ==
    /\ IsResource /\ request.method = "GET"
    /\ fs_last_modified(ReqPath).val % TicksPerSec # 0
    /\ request.if_modified_since = Some(FormatHttpDate(fs_last_modified(ReqPath).val))
    /\ response.status = "NotModified"

\* C4: a GET without gzip that reaches the open stage with one valid Range,
\* start <= end < size, has status Partial Content, Content-Length
\* end - start + 1, and as body the resource's bytes start..end, on both backends.
C4_RangeBody ==
    (ReachedOpen /\ ~AcceptsGzip /\ HasSingleRange
                 /\ ParsedRange.start <= ParsedRange.end
                 /\ ParsedRange.end < Len(ResourceFile.content))
        => /\ outcome = "returned"
           /\ response.status = "PartialContent"
           /\ response.content_length = Some(ParsedRange.end - ParsedRange.start + 1)
           /\ response.body = Some([bytes |-> SubSeq(ResourceFile.content,
                                        ParsedRange.start + 1, ParsedRange.end + 1),
                                    gzip |-> FALSE])

\* C4 witness: bytes=5-10 on the archive-backed backend gives the six bytes
\* at offsets 5..10
C4_Witness ==
    /\ ReachedOpen /\ backend = "embedded"
    /\ request.range = Some(RangeHeader(Bytes, 5, 10))
    /\ response.status = "PartialContent"
    /\ response.content_length = Some(6)
    /\ response.body = Some([bytes |-> <<25, 26, 27, 28, 29, 30>>, gzip |-> FALSE])

\* C5: whenever Accept-Encoding contains "gzip" and the resource is opened,
\* the response carries Content-Encoding: gzip and no Content-Length, also
\* when a valid Range was resolved.
C5_GzipNoContentLength ==
    (ReachedOpen /\ AcceptsGzip /\ outcome = "returned")
        => (response.content_encoding = Some(Gzip) /\ response.content_length = None)

\* "<unit> <start>-<end>/<size>"
SpacedContentRange(range, size) ==
    range.typ \o <<Ascii[" "]>> \o Dec(range.start) \o <<Ascii["-"]>> \o Dec(range.end)
        \o <<Slash>> \o Dec(size)

\* C6: when a valid single Range is resolved on a GET, Content-Range reads
\* "<unit> <start>-<end>/<size>".
C6_ContentRangeForm ==
    (ReachedOpen /\ HasSingleRange /\ outcome = "returned")
        => response.content_range =
               Some(SpacedContentRange(ParsedRange, Len(ResourceFile.content)))

\* C7: a GET whose Range header is absent, has a comma, or does not parse is
\* served as if no range were requested: the response is the one the same
\* request gets without a Range header, it is never Partial Content, carries
\* neither Content-Range nor Content-Length, and once the file is opened the
\* status is OK and the body is the resource from offset 0.
C7_RangeFallback ==
    (InPipeline /\ request.method = "GET" /\ ~HasSingleRange)
        => /\ \A checks \in BOOLEAN :
                on_response([request EXCEPT !.range = None], checks)
                    = [response |-> response, outcome |-> outcome]
           /\ response.status # "PartialContent"
           /\ response.content_range = None
           /\ response.content_length = None
           /\ ReachedOpen
                => /\ outcome = "returned"
                   /\ response.status = "Ok"
                   /\ response.body # None
                   /\ response.body[1].bytes = ResourceFile.content

\* C7 witness: a multi-range request answered OK with the whole resource
C7_Witness ==
    /\ ReachedOpen
    /\ Contains(RangeText, Ascii[","])
    /\ response.status = "Ok"
    /\ response.body = Some([bytes |-> ResourceFile.content, gzip |-> FALSE])

TerminalStatuses == {"NotModified", "Ok", "PartialContent", "Forbidden", "NotFound"}

\* C10: for an existing file whose request path has no extension the pipeline
\* sets no Content-Type and goes on, ending with one of the terminal statuses.
C10_NoExtensionContinues ==
    (IsResource /\ Extension(ReqPath) = None)
        => /\ outcome = "returned"
           /\ response.content_type = None
           /\ response.status \in TerminalStatuses

-----------------------------------------------------------------------------
(* The package codec on its own: buffers are written or made up, decoded,  *)
(* and their entries opened                                                *)

RootFiles == {FileA, FileInDir, FileNoExt}

\* the lists write_package may be handed: any order, repeats included
InputLists == UNION {[1..n -> RootFiles] : n \in 0..MaxFiles}

\* one metadata record of a made-up buffer
MadeUpRecords(paths) ==
    {MetaRecord(path, 0, len, start) : path \in paths, len \in 0..MaxData, start \in 0..MaxData}

MadeUpMetadata ==
    {<<>>} \cup MadeUpRecords({Str(<<"a">>)})
    \cup {r1 \o r2 : r1 \in MadeUpRecords({Str(<<"a">>)}),
                     r2 \in MadeUpRecords({Str(<<"a">>), Str(<<"b">>)})}

MadeUpData == {[i \in 1..n |-> 70 + i] : n \in 0..MaxData}

\* buffers nobody encoded: whole records with any length and start offset, a
\* header that tells their length or one byte less or more, any data region,
\* and the whole cut short by one byte or in the middle of the metadata
BuffersOf(meta, data) ==
    {Take(BE8(meta_len) \o meta \o data, cut) :
        meta_len \in {Len(meta) - 1, Len(meta), Len(meta) + 1} \cap Nat,
        cut \in {8 + Len(meta) + Len(data), 8 + Len(meta) + Len(data) - 1,
                 8 + Len(meta) - 4}}

MadeUpBuffers == UNION {BuffersOf(meta, data) : meta \in MadeUpMetadata, data \in MadeUpData}

CodecInit ==
    /\ backend = "none"
    /\ disk \in Disks
    /\ package = NoPackage
    /\ request = NoRequest
    /\ response = HostResponse("none")
    /\ outcome = "idle"
    /\ buf = NoBuffer
    /\ decoded = NoPackage
    /\ opened = NotOpened
    /\ lr = NoReader

\* write_package writes the listed files of the root into the buffer
Encode ==
    /\ buf.kind = "none"
    /\ \E files \in InputLists :
        LET written == write_package(disk, AbsolutePath(RootLocation), files)
        IN  /\ written.ok
            /\ buf' = [kind |-> "encoded", bytes |-> written.val, files |-> files]
    /\ UNCHANGED <<backend, disk, package, request, response, outcome, decoded, opened, lr>>

\* create_package_from_dir writes every file of the root into the buffer
CreateFromDir ==
    /\ buf.kind = "none"
    /\ create_package_from_dir(disk, RootDir).ok
    /\ buf' = [kind |-> "encoded", bytes |-> create_package_from_dir(disk, RootDir).val,
               files |-> SetToSeq(RootFiles)]
    /\ UNCHANGED <<backend, disk, package, request, response, outcome, decoded, opened, lr>>

\* some other buffer is handed over
Load ==
    /\ buf.kind = "none"
    /\ \E bytes \in MadeUpBuffers : buf' = [kind |-> "madeup", bytes |-> bytes, files |-> <<>>]
    /\ UNCHANGED <<backend, disk, package, request, response, outcome, decoded, opened, lr>>

\* Package::from_bytes
Decode ==
    /\ buf.kind # "none"
    /\ decoded.kind = "none"
    /\ decoded' = Package_from_bytes(buf.bytes)
    /\ UNCHANGED <<backend, disk, package, request, response, outcome, buf, opened, lr>>

\* Package::open of an indexed path or of a path that is not indexed
Open ==
    /\ decoded.kind = "ok"
    /\ opened.kind = "none"
    /\ \E path \in DOMAIN decoded.files \cup {Str(<<"z", ".", "t">>)} :
        opened' = [kind |-> Package_open(decoded, path).kind, path |-> path,
                   slice |-> Package_open(decoded, path).slice]
    /\ UNCHANGED <<backend, disk, package, request, response, outcome, buf, decoded, lr>>

CodecNext == Encode \/ CreateFromDir \/ Load \/ Decode \/ Open

CodecSpec == CodecInit /\ [][CodecNext]_vars

\* the elements of a list
Elements(list) == {list[i] : i \in 1..Len(list)}

\* the file of the root a relative path names
RootFile(path) == FileAt(disk, PathJoin(AbsolutePath(RootLocation), path))

\* C8: decoding what encode wrote gives an index of exactly the enrolled
\* paths, each entry with the file's length and its modification time in
\* whole epoch seconds; Open of each enrolled path gives the file's bytes; and
\* the data region starts at byte 8 + meta_len, where the encoder started
\* writing the file bytes.
C8_RoundTrip ==
    (buf.kind = "encoded" /\ decoded.kind # "none")
        => /\ decoded.kind = "ok"
           /\ DOMAIN decoded.files = Elements(buf.files)
           /\ \A path \in Elements(buf.files) :
                /\ decoded.files[path].len = Len(RootFile(path).content)
                /\ decoded.files[path].last_modified
                       = Timestamp(RootFile(path).modified) * TicksPerSec
                /\ Package_open(decoded, path).kind = "ok"
                /\ Package_open(decoded, path).slice = RootFile(path).content
           /\ decoded.data = FileBytes(disk, AbsolutePath(RootLocation), Sort(buf.files))
           /\ Len(buf.bytes) = 8 + MetaLen(buf.files) + Len(decoded.data)
           /\ opened.kind # "none" /\ opened.path \in Elements(buf.files)
                => opened.kind = "ok" /\ opened.slice = RootFile(opened.path).content

\* C8 witness: a file that is not the first of its package, modified before
\* the epoch at a fraction of a second, is opened from the decoded package
C8_Witness ==
    /\ buf.kind = "encoded" /\ Len(buf.files) > 1
    /\ opened.kind = "ok" /\ opened.path = FileInDir
    /\ opened.slice = RootFile(FileInDir).content
    /\ decoded.files[opened.path].start > 0
    /\ RootFile(FileA).modified < 0
    /\ FileA \in DOMAIN decoded.files

\* [start, start + len) of two entries have no offset in common
Disjoint(e1, e2) ==
    e1.len = 0 \/ e2.len = 0 \/ e1.start + e1.len <= e2.start \/ e2.start + e2.len <= e1.start

\* C9: in every Package that decode returns, from any buffer, every entry has
\* start_offset + length within the data region, the intervals of any two
\* entries are disjoint, and so Open never reads outside the data region.
C9_OffsetInvariant ==
    decoded.kind = "ok"
        => /\ \A path \in DOMAIN decoded.files :
                decoded.files[path].start + decoded.files[path].len <= Len(decoded.data)
           /\ \A p1, p2 \in DOMAIN decoded.files :
                p1 # p2 => Disjoint(decoded.files[p1], decoded.files[p2])
           /\ opened.kind # "panic"

-----------------------------------------------------------------------------
(* C11: what is promised and what is streamed *)

\* C11: on every success path that emits Content-Length (an uncompressed
\* Partial Content response) the body streamed has exactly Content-Length
\* bytes, for every Range the parser accepts and every resource size; on the
\* failure paths (Forbidden, NotFound) no body is set.
C11_StreamsPromisedCount ==
    /\ (Handled /\ outcome = "returned" /\ response.status = "PartialContent"
                /\ response.content_length # None /\ response.body # None
                /\ ~response.body[1].gzip)
            => Len(response.body[1].bytes) = response.content_length[1]
    /\ (Handled /\ response.status \in {"Forbidden", "NotFound"})
            => response.body = None

-----------------------------------------------------------------------------
(* C12: malformed metadata *)

\* the offset after the record that starts at offset pos of bytes, by the
\* container format: path_len, path, last_modified, len, start; -1 when the
\* buffer ends before the record does
RecordEnd(bytes, pos) ==
    IF pos + 8 > Len(bytes) THEN 0 - 1
    ELSE IF pos + 8 + Unsigned(SubSeq(bytes, pos + 1, pos + 8)) + 24 > Len(bytes) THEN 0 - 1
    ELSE pos + 8 + Unsigned(SubSeq(bytes, pos + 1, pos + 8)) + 24

\* the bytes of whole records read from offset pos until meta_len bytes or
\* more are read, read of them being read already; -1 when a record is cut
\* short by the end of the buffer
RECURSIVE RecordBytes(_, _, _, _)
RecordBytes(bytes, meta_len, pos, read) ==
    IF read >= meta_len THEN read
    ELSE IF RecordEnd(bytes, pos) < 0 THEN 0 - 1
    ELSE RecordBytes(bytes, meta_len, RecordEnd(bytes, pos),
                     read + (RecordEnd(bytes, pos) - pos))

\* C12: decode fails, and produces no Package, for every buffer in which a
\* metadata record is cut short by the end of the buffer and for every buffer
\* in which whole records take more bytes than the header's meta_len; it
\* succeeds only when the bytes of the records read equal meta_len exactly.
C12_DecodeFailsClosed ==
    (decoded.kind # "none" /\ Len(buf.bytes) >= 8)
        => LET meta_len == Unsigned(SubSeq(buf.bytes, 1, 8))
               taken == RecordBytes(buf.bytes, meta_len, 8, 0)
           IN  /\ taken < 0 => decoded.kind = "err" /\ DOMAIN decoded.files = {}
               /\ taken > meta_len => decoded.kind = "err" /\ DOMAIN decoded.files = {}
               /\ decoded.kind = "ok" => taken = meta_len

-----------------------------------------------------------------------------
(* LimitReader (io/mod.rs) *)

\* n zero bytes: vec![0u8; n]
RECURSIVE Zeros(_)
Zeros(n) == IF n <= 0 THEN <<>> ELSE <<0>> \o Zeros(n - 1)

\* the inner stream: a cursor over bytes; touched records that its read ran
Cursor_new(bytes) == [bytes |-> bytes, pos |-> 0, touched |-> FALSE]

\* Read::read of the inner stream into a buffer of capacity bytes: an error,
\* or some n <= capacity of the bytes left (at most want: a read may be
\* short), the stream advanced by n
Inner_read(inner, capacity, want, fail) ==
    IF fail THEN [ok |-> FALSE, n |-> 0, bytes |-> <<>>,
                  inner |-> [inner EXCEPT !.touched = TRUE]]
    ELSE LET n == Min(Min(want, capacity), Len(inner.bytes) - inner.pos)
         IN  [ok |-> TRUE, n |-> n,
              bytes |-> SubSeq(inner.bytes, inner.pos + 1, inner.pos + n),
              inner |-> [inner EXCEPT !.pos = @ + n, !.touched = TRUE]]

\* LimitReader::new
LimitReader_new(inner, limit) == [read |-> 0, limit |-> limit, inner |-> inner]

\* LimitReader::into_inner
LimitReader_into_inner(self) == self.inner

\* the reader, the caller's buffer (buf) and the result after a call
ReadOutcome(self, dst, result) == [reader |-> self, buf |-> dst, result |-> result]

\* LimitReader::read with the limit left out of the capacity
LimitReader_read_nolimit(self, dst, want, fail) ==
    IF self.limit = self.read THEN ReadOutcome(self, dst, Ok(0))
    ELSE LET got == Inner_read(self.inner, Len(dst), want, fail)
         IN  IF ~got.ok THEN ReadOutcome([self EXCEPT !.inner = got.inner], dst, Err)
             ELSE ReadOutcome([self EXCEPT !.inner = got.inner, !.read = @ + got.n],
                              got.bytes \o Zeros(Len(dst) - got.n), Ok(got.n))

\* LimitReader::read into the caller's buffer dst (buf); want and fail are what the
\* inner stream does when its read is called
LimitReader_read(self, dst, want, fail) ==
    IF self.limit = self.read THEN ReadOutcome(self, dst, Ok(0))
    ELSE LET left == self.limit - self.read
             capacity == IF left < Len(dst) THEN left ELSE Len(dst)
             got == Inner_read(self.inner, capacity, want, fail)
             buffer == got.bytes \o Zeros(capacity - got.n)
         IN  IF ~got.ok THEN ReadOutcome([self EXCEPT !.inner = got.inner], dst, Err)
             ELSE ReadOutcome([self EXCEPT !.inner = got.inner, !.read = @ + got.n],
                              IF Len(dst) = Len(buffer) THEN buffer
                              ELSE buffer \o Drop(dst, Len(buffer)),
                              Ok(got.n))

\* the inner streams: the bytes 0, 1, 2, ... of every length up to MaxInner
InnerStreams == {[i \in 1..k |-> i - 1] : k \in 0..MaxInner}

ReaderInit ==
    /\ backend = "none"
    /\ disk = DiskOf(0, FALSE)
    /\ package = NoPackage
    /\ request = NoRequest
    /\ response = HostResponse("none")
    /\ outcome = "idle"
    /\ buf = NoBuffer
    /\ decoded = NoPackage
    /\ opened = NotOpened
    /\ lr = NoReader

\* LimitReader::new over an inner stream
NewReader ==
    /\ lr.kind = "none"
    /\ \E bytes \in InnerStreams, limit \in 0..MaxLimit :
        lr' = [NoReader EXCEPT !.kind = "reader",
                               !.reader = LimitReader_new(Cursor_new(bytes), limit)]
    /\ UNCHANGED <<backend, disk, package, request, response, outcome, buf, decoded, opened>>

\* one LimitReader::read call with a fresh zeroed buffer
ReadCall ==
    /\ lr.kind = "reader"
    /\ Len(lr.returns) < MaxReads
    /\ \E len \in 0..MaxBuf, want \in 0..MaxBuf, fail \in BOOLEAN :
        LET fresh == [lr.reader EXCEPT !.inner.touched = FALSE]
            out == LimitReader_read(fresh, Zeros(len), want, fail)
        IN  lr' = [lr EXCEPT !.reader = out.reader,
                             !.buf = out.buf,
                             !.returns = Append(@, out.result),
                             !.delivered = IF out.result.ok
                                           THEN @ \o Take(out.buf, out.result.val)
                                           ELSE @,
                             !.full_before = (lr.reader.read = lr.reader.limit)]
    /\ UNCHANGED <<backend, disk, package, request, response, outcome, buf, decoded, opened>>

\* LimitReader::into_inner: the reader is given up for its inner stream
IntoInner ==
    /\ lr.kind = "reader"
    /\ lr' = [lr EXCEPT !.kind = "inner",
                        !.reader.inner = LimitReader_into_inner(lr.reader)]
    /\ UNCHANGED <<backend, disk, package, request, response, outcome, buf, decoded, opened>>

ReaderNext == NewReader \/ ReadCall \/ IntoInner

ReaderSpec == ReaderInit /\ [][ReaderNext]_vars

\* the sum of the counts the reads returned
RECURSIVE Delivered(_)
Delivered(returns) ==
    IF Len(returns) = 0 THEN 0
    ELSE (IF Head(returns).ok THEN Head(returns).val ELSE 0) + Delivered(Tail(returns))

\* C13: for the bounded reader with limit N over any inner stream and any
\* sequence of read calls with any buffer sizes, the cumulative number of bytes
\* reported delivered never exceeds N, the bytes delivered are the first bytes
\* of the inner stream in order, and once the cumulative count equals N every
\* later read returns 0 without reading from the inner stream.
C13_BoundedReader ==
    lr.kind # "none" =>
        /\ Delivered(lr.returns) <= lr.reader.limit
        /\ Len(lr.delivered) = Delivered(lr.returns)
        /\ StartsWith(lr.reader.inner.bytes, lr.delivered)
        /\ (lr.full_before /\ Len(lr.returns) > 0) =>
                /\ lr.returns[Len(lr.returns)] = Ok(0)
                /\ ~lr.reader.inner.touched

\* limit 6 over the bytes 0..6: two 4-byte reads deliver 4 then 2 bytes, and a
\* third read returns 0 and leaves the inner stream alone
C13_Witness ==
    /\ lr.kind = "reader"
    /\ lr.reader.limit = 6
    /\ lr.returns = <<Ok(4), Ok(2), Ok(0)>>
    /\ lr.delivered = <<0, 1, 2, 3, 4, 5>>
    /\ lr.buf = <<0, 0, 0, 0>>
    /\ lr.full_before
    /\ lr.reader.inner.pos = 6

=============================================================================
